---- MODULE Spec2Model ----
(***************************************************************************)
(* Model of sprint-tracker: the command-line tool of src/cli.js and its    *)
(* issue-tracker bridge github-sync.js.  The persisted document            *)
(* (sprint-data.json), the configuration (.sprint-tracker.json), the clock *)
(* and the external issue tracker are the state; every command of the      *)
(* dispatcher is one action (load, run the handler, save, exit).           *)
(*                                                                         *)
(* Free text (ids, titles, prefixes, field values) is a sequence of        *)
(* one-character strings, so startsWith, replace, parseInt, padStart and   *)
(* the case conversions are computed character by character.  An optional  *)
(* field is <<>> when undefined/null and <<v>> when it holds v.            *)
(***************************************************************************)
EXTENDS Integers, Sequences, FiniteSets, TLC

VARIABLES
    config,   \* .sprint-tracker.json: taskPrefix, columns
    env,      \* the machine: is the gh client installed, does origin resolve
    file,     \* sprint-data.json as last written
    today,    \* the clock: the current calendar day
    issues,   \* the external tracker: issues[n] is the state of issue #n
    budget,   \* commands the session may still run
    last,     \* the last invocation: command, exit code, outputs, memory at exit
    shown,    \* the progress percentage the last board printed
    running   \* invocations that have loaded the document and not yet exited

vars == <<config, env, file, today, issues, budget, last, shown, running>>

(***************************************************************************)
(* Bounds                                                                  *)
(***************************************************************************)
MaxTasks == 3       \* tasks a document of Spec may hold
MaxOps == 3         \* commands in one explored session of Spec
MaxDay == 1         \* last calendar day of the clock (days count from 0)
MaxSyncTasks == 2   \* tasks of the documents SpecPush and SpecPull start from
MaxSyncIssues == 1  \* issues the tracker holds when SpecPush and SpecPull start
MaxPushes == 2      \* pushes in a row in SpecPush
MaxBoardTasks == 3  \* tasks of the documents SpecBoard starts from
MaxBoardOps == 3    \* commands in one explored session of SpecBoard
MaxRunning == 2     \* invocations running at the same time in SpecRace
MaxRaceOps == 2     \* invocations of one explored session of SpecRace
MaxRaceTasks == 2   \* tasks of the documents SpecRace starts from

(***************************************************************************)
(* Strings                                                                 *)
(***************************************************************************)
None == <<>>
Some(v) == <<v>>

Truthy(opt) == opt # <<>> /\ opt[1] # 0

Upper(c) ==
    CASE c = "t" -> "T" [] c = "a" -> "A" [] c = "s" -> "S" [] c = "k" -> "K"
      [] c = "x" -> "X"
      [] OTHER -> c

Lower(c) ==
    CASE c = "T" -> "t" [] c = "A" -> "a" [] c = "S" -> "s" [] c = "K" -> "k"
      [] c = "X" -> "x"
      [] OTHER -> c

toUpperCase(s) == [i \in 1..Len(s) |-> Upper(s[i])]

toLowerCase(s) == [i \in 1..Len(s) |-> Lower(s[i])]

startsWith(s, p) == Len(p) <= Len(s) /\ SubSeq(s, 1, Len(p)) = p

\* index of the first occurrence of pat in s, 0 when there is none
indexOf(s, pat) ==
    LET hits == {i \in 1..(Len(s) - Len(pat) + 1) : SubSeq(s, i, i + Len(pat) - 1) = pat}
    IN IF hits = {} THEN 0 ELSE CHOOSE i \in hits : \A j \in hits : i <= j

\* String.prototype.replace with a string pattern: the first occurrence only
replace(s, pat, rep) ==
    LET i == indexOf(s, pat)
    IN IF i = 0 THEN s
       ELSE SubSeq(s, 1, i - 1) \o rep \o SubSeq(s, i + Len(pat), Len(s))

DecDigits == <<"0", "1", "2", "3", "4", "5", "6", "7", "8", "9">>

IsDigit(c) == \E d \in 1..Len(DecDigits) : DecDigits[d] = c

DigitVal(c) == (CHOOSE d \in 1..Len(DecDigits) : DecDigits[d] = c) - 1

RECURSIVE SkipSpaces(_)
SkipSpaces(s) == IF s # <<>> /\ s[1] = " " THEN SkipSpaces(Tail(s)) ELSE s

RECURSIVE DigitRun(_, _, _)
\* value of the longest run of decimal digits at the head of s
DigitRun(s, acc, seen) ==
    IF s # <<>> /\ IsDigit(s[1])
    THEN DigitRun(Tail(s), acc * 10 + DigitVal(s[1]), TRUE)
    ELSE [nan |-> ~seen, val |-> acc]

\* parseInt(s): leading blanks, an optional sign, then decimal digits;
\* NaN when no digit follows
parseInt(s) ==
    LET t == SkipSpaces(s)
        neg == t # <<>> /\ t[1] = "-"
        u == IF t # <<>> /\ t[1] \in {"-", "+"} THEN Tail(t) ELSE t
        r == DigitRun(u, 0, FALSE)
    IN IF r.nan THEN r ELSE [nan |-> FALSE, val |-> IF neg THEN 0 - r.val ELSE r.val]

\* parseInt(s) || 0
parseIntOr0(s) == LET r == parseInt(s) IN IF r.nan THEN 0 ELSE r.val

RECURSIVE NumToString(_)
\* String(n) for n >= 0
NumToString(n) ==
    IF n < 10 THEN <<DecDigits[n + 1]>>
    ELSE NumToString(n \div 10) \o <<DecDigits[(n % 10) + 1]>>

RECURSIVE padStart(_, _, _)
padStart(s, len, fill) == IF Len(s) >= len THEN s ELSE padStart(<<fill>> \o s, len, fill)

Max2(a, b) == IF a >= b THEN a ELSE b

(***************************************************************************)
(* Configuration and document                                              *)
(***************************************************************************)
DefaultColumns == <<"backlog", "ready", "in_progress", "review", "done">>

DefaultPrefix == <<"T", "A", "S", "K">>

\* taskPrefix values a user may write into .sprint-tracker.json; <<>> is "absent"
PrefixChoices == {<<>>, <<"t">>, <<"T", "-", "5">>}

ColumnChoices == {DefaultColumns, <<"todo", "shipped">>}

SeqToSet(s) == {s[i] : i \in 1..Len(s)}

\* config?.columns || [...]
Columns(cfg) == IF cfg.columns = <<>> THEN DefaultColumns ELSE cfg.columns

\* (config?.taskPrefix || 'TASK').toUpperCase()
Prefix(cfg) == toUpperCase(IF cfg.taskPrefix = <<>> THEN DefaultPrefix ELSE cfg.taskPrefix)

\* a machine with gh installed and a GitHub origin
WorkingEnv == [gh |-> TRUE, remote |-> TRUE]

\* the configuration cmdInit writes: no taskPrefix, the five default columns
DefaultConfig == [taskPrefix |-> <<>>, columns |-> DefaultColumns]

CurrentSprint == <<"1">>

\* the document cmdInit writes
InitialData(ts) ==
    [currentSprint |-> CurrentSprint,
     tasks |-> <<>>,
     technicalDebt |-> <<>>,
     lastUpdated |-> ts]

\* saveData: stamps lastUpdated on the in-memory document and writes it whole
saveData(data, ts) == [data EXCEPT !.lastUpdated = ts]

\* data.tasks.find(t => t.id.toLowerCase() === taskId.toLowerCase()); 0 = not found
FindTask(tasks, taskId) ==
    LET hits == {i \in 1..Len(tasks) : toLowerCase(tasks[i].id) = toLowerCase(taskId)}
    IN IF hits = {} THEN 0 ELSE CHOOSE i \in hits : \A j \in hits : i <= j

NoResults == [created |-> <<>>, updated |-> <<>>, errors |-> <<>>, calls |-> <<>>]

\* what one invocation leaves behind: data is the in-memory document at exit
Outcome(cmd, ok, saved, exit, data, res) ==
    [cmd |-> cmd, ok |-> ok, saved |-> saved, exit |-> exit,
     data |-> data, res |-> res]

(***************************************************************************)
(* add                                                                     *)
(***************************************************************************)
\* MaxNum parsing the whole id instead of the id without its prefix
MaxNumNoStrip(tasks, prefix) ==
    LET nums == {parseIntOr0(tasks[i].id) :
                    i \in {j \in 1..Len(tasks) : startsWith(tasks[j].id, prefix)}}
        RECURSIVE MaxOf(_, _)
        MaxOf(S, m) == IF S = {} THEN m
                       ELSE LET x == CHOOSE y \in S : TRUE IN MaxOf(S \ {x}, Max2(m, x))
    IN MaxOf(nums, 0)

\* MaxNum scanning all tasks but the last one
MaxNumButLast(tasks, prefix) ==
    LET nums == {parseIntOr0(replace(tasks[i].id, prefix \o <<"-">>, <<>>)) :
                    i \in {j \in 1..(Len(tasks) - 1) : startsWith(tasks[j].id, prefix)}}
        RECURSIVE MaxOf(_, _)
        MaxOf(S, m) == IF S = {} THEN m
                       ELSE LET x == CHOOSE y \in S : TRUE IN MaxOf(S \ {x}, Max2(m, x))
    IN MaxOf(nums, 0)

\* maxNum of cmdAdd: the largest numeric suffix among the ids starting with prefix
MaxNum(tasks, prefix) ==
    LET nums == {parseIntOr0(replace(tasks[i].id, prefix \o <<"-">>, <<>>)) :
                    i \in {j \in 1..Len(tasks) : startsWith(tasks[j].id, prefix)}}
        RECURSIVE MaxOf(_, _)
        MaxOf(S, m) == IF S = {} THEN m
                       ELSE LET x == CHOOSE y \in S : TRUE IN MaxOf(S \ {x}, Max2(m, x))
    IN MaxOf(nums, 0)

NewId(tasks, prefix) == prefix \o <<"-">> \o padStart(NumToString(MaxNum(tasks, prefix) + 1), 3, "0")

NewTask(data, cfg, title, ts) ==
    [id |-> NewId(data.tasks, Prefix(cfg)),
     title |-> title,
     type |-> <<"f">>,
     status |-> "backlog",
     priority |-> <<"m">>,
     points |-> 0,
     sprint |-> data.currentSprint,
     owner |-> None,
     branch |-> None,
     notes |-> None,
     createdAt |-> ts,
     completedAt |-> None,
     githubIssue |-> None,
     githubUrl |-> None]

\* cmdAdd(data, config, args): the in-memory document at return and whether it saved
cmdAdd(data, cfg, title, ts) ==
    IF title = <<>>
    THEN [data |-> data, saved |-> FALSE, ok |-> FALSE]
    ELSE [data |-> saveData([data EXCEPT !.tasks = Append(@, NewTask(data, cfg, title, ts))], ts),
          saved |-> TRUE, ok |-> TRUE]

TitleInputs == {<<>>, <<"a">>}

Finish(cmd, r, exit, res) ==
    /\ file' = IF r.saved THEN r.data ELSE file
    /\ last' = Outcome(cmd, r.ok, r.saved, exit, r.data, res)
    /\ budget' = budget - 1

Add ==
    /\ budget > 0
    /\ \E title \in TitleInputs :
         /\ title # <<>> => Len(file.tasks) < MaxTasks
         /\ Finish("add", cmdAdd(file, config, title, today), 0, NoResults)
    /\ UNCHANGED <<config, env, today, issues, shown, running>>

(***************************************************************************)
(* move                                                                    *)
(***************************************************************************)
\* cmdMove stamping completedAt on every move into done
cmdMoveRestamps(data, cfg, taskId, newStatus, ts) ==
    LET i == FindTask(data.tasks, taskId)
    IN IF newStatus \notin SeqToSet(Columns(cfg))
       THEN [data |-> data, saved |-> FALSE, ok |-> FALSE]
       ELSE IF i = 0
       THEN [data |-> data, saved |-> FALSE, ok |-> FALSE]
       ELSE LET t == data.tasks[i]
                moved == [t EXCEPT !.status = newStatus]
                stamped == IF newStatus = "done"
                           THEN [moved EXCEPT !.completedAt = Some(ts)]
                           ELSE moved
            IN [data |-> saveData([data EXCEPT !.tasks[i] = stamped], ts),
                saved |-> TRUE, ok |-> TRUE]

\* cmdMove clearing completedAt when the task leaves done
cmdMoveUnstamps(data, cfg, taskId, newStatus, ts) ==
    LET i == FindTask(data.tasks, taskId)
    IN IF newStatus \notin SeqToSet(Columns(cfg))
       THEN [data |-> data, saved |-> FALSE, ok |-> FALSE]
       ELSE IF i = 0
       THEN [data |-> data, saved |-> FALSE, ok |-> FALSE]
       ELSE LET t == data.tasks[i]
                moved == [t EXCEPT !.status = newStatus]
                stamped == IF newStatus = "done" /\ moved.completedAt = None
                           THEN [moved EXCEPT !.completedAt = Some(ts)]
                           ELSE IF newStatus # "done"
                           THEN [moved EXCEPT !.completedAt = None]
                           ELSE moved
            IN [data |-> saveData([data EXCEPT !.tasks[i] = stamped], ts),
                saved |-> TRUE, ok |-> TRUE]

\* cmdMove(data, config, taskId, newStatus)
cmdMove(data, cfg, taskId, newStatus, ts) ==
    LET i == FindTask(data.tasks, taskId)
    IN IF newStatus \notin SeqToSet(Columns(cfg))
       THEN [data |-> data, saved |-> FALSE, ok |-> FALSE]
       ELSE IF i = 0
       THEN [data |-> data, saved |-> FALSE, ok |-> FALSE]
       ELSE LET t == data.tasks[i]
                moved == [t EXCEPT !.status = newStatus]
                stamped == IF newStatus = "done" /\ moved.completedAt = None
                           THEN [moved EXCEPT !.completedAt = Some(ts)]
                           ELSE moved
            IN [data |-> saveData([data EXCEPT !.tasks[i] = stamped], ts),
                saved |-> TRUE, ok |-> TRUE]

\* ids a user may type: a known id in lower case, or one no task has
IdInputs == {toLowerCase(file.tasks[i].id) : i \in 1..Len(file.tasks)} \cup {<<"x">>}

StatusInputs == {"review", "done", "shipped", "archived"}

Move ==
    /\ budget > 0
    /\ \E taskId \in IdInputs, newStatus \in StatusInputs :
         Finish("move", cmdMove(file, config, taskId, newStatus, today),
                0, NoResults)
    /\ UNCHANGED <<config, env, today, issues, shown, running>>

(***************************************************************************)
(* edit                                                                    *)
(***************************************************************************)
allowedFields == {"title", "type", "priority", "points", "owner", "branch", "sprint", "notes"}

\* task[field] = value, after the type coercion of points
SetField(t, field, value) ==
    CASE field = "points" -> [t EXCEPT !.points = parseIntOr0(value)]
      [] field \in {"owner", "branch", "notes"} -> [t EXCEPT ![field] = Some(value)]
      [] OTHER -> [t EXCEPT ![field] = value]

\* cmdEdit assigning the field before it checks the allow-list
cmdEditWritesFirst(data, cfg, taskId, field, value, ts) ==
    LET i == FindTask(data.tasks, taskId)
    IN IF i = 0
       THEN [data |-> data, saved |-> FALSE, ok |-> FALSE]
       ELSE LET written == [data EXCEPT !.tasks[i] = SetField(@, field, value)]
            IN IF field \notin allowedFields
               THEN [data |-> written, saved |-> FALSE, ok |-> FALSE]
               ELSE [data |-> saveData(written, ts), saved |-> TRUE, ok |-> TRUE]

\* cmdEdit(data, config, taskId, field, value)
cmdEdit(data, cfg, taskId, field, value, ts) ==
    LET i == FindTask(data.tasks, taskId)
    IN IF i = 0
       THEN [data |-> data, saved |-> FALSE, ok |-> FALSE]
       ELSE IF field \notin allowedFields
       THEN [data |-> data, saved |-> FALSE, ok |-> FALSE]
       ELSE [data |-> saveData([data EXCEPT !.tasks[i] = SetField(@, field, value)], ts),
             saved |-> TRUE, ok |-> TRUE]

EditInputs ==
    {[field |-> "sprint", value |-> <<"2">>],
     [field |-> "id", value |-> <<"X">>],
     [field |-> "completedAt", value |-> <<"9">>]}

Edit ==
    /\ budget > 0
    /\ \E taskId \in IdInputs, e \in EditInputs :
         Finish("edit", cmdEdit(file, config, taskId, e.field, e.value, today), 0, NoResults)
    /\ UNCHANGED <<config, env, today, issues, shown, running>>

\* values a user may type for points: numbers, a negative number, text, nothing
PointsInputs == {<<"3">>, <<"5">>, <<"-", "5">>, <<"x">>, <<>>}

\* the edit case of the dispatcher, on the points field
EditPoints ==
    /\ budget > 0
    /\ \E taskId \in IdInputs, value \in PointsInputs :
         Finish("edit", cmdEdit(file, config, taskId, "points", value, today), 0, NoResults)
    /\ UNCHANGED <<config, env, today, issues, shown, running>>

(***************************************************************************)
(* link                                                                    *)
(***************************************************************************)
\* the issue URL: https://github.com/<owner>/<repo>/issues/<n>
IssueUrl(n) == <<"/">> \o NumToString(n)

\* the link case of the dispatcher; exit is the process exit code
cmdLink(data, e, taskId, issueArg, ts) ==
    LET issueNum == parseInt(issueArg)
        i == FindTask(data.tasks, taskId)
    IN IF taskId = <<>> \/ issueNum.nan \/ issueNum.val = 0
       THEN [data |-> data, saved |-> FALSE, ok |-> FALSE, exit |-> 1]
       ELSE IF i = 0
       THEN [data |-> data, saved |-> FALSE, ok |-> FALSE, exit |-> 1]
       ELSE IF e.remote
       THEN [data |-> saveData([data EXCEPT !.tasks[i] =
                         [@ EXCEPT !.githubIssue = Some(issueNum.val),
                                   !.githubUrl = Some(IssueUrl(issueNum.val))]], ts),
             saved |-> TRUE, ok |-> TRUE, exit |-> 0]
       ELSE [data |-> saveData([data EXCEPT !.tasks[i] =
                         [@ EXCEPT !.githubIssue = Some(issueNum.val)]], ts),
             saved |-> TRUE, ok |-> TRUE, exit |-> 0]

IssueInputs == {<<"1">>, <<"x">>}

Link ==
    /\ budget > 0
    /\ \E taskId \in IdInputs, issueArg \in IssueInputs :
         LET r == cmdLink(file, env, taskId, issueArg, today)
         IN Finish("link", r, r.exit, NoResults)
    /\ UNCHANGED <<config, env, today, issues, shown, running>>

(***************************************************************************)
(* The issue-tracker client (gh), one subprocess call each.  fails says    *)
(* that this call's subprocess exits non-zero; a call on an issue number   *)
(* the tracker does not have fails too.                                    *)
(***************************************************************************)
Call(op, id, n, ok, state) == [op |-> op, id |-> id, issue |-> n, ok |-> ok, state |-> state]

Exists(iss, n) == n \in 1..Len(iss)

\* getIssueStatus: Some(state), or None (null) when the view fails
getIssueStatus(iss, n, fails) == IF ~fails /\ Exists(iss, n) THEN Some(iss[n]) ELSE None

\* closeIssue: the tracker after the call (the boolean result is ignored by every caller)
closeIssue(iss, n, fails) == IF ~fails /\ Exists(iss, n) THEN [iss EXCEPT ![n] = "CLOSED"] ELSE iss

\* reopenIssue
reopenIssue(iss, n, fails) == IF ~fails /\ Exists(iss, n) THEN [iss EXCEPT ![n] = "OPEN"] ELSE iss

\* createIssue: the tracker opens issue #Len+1 and gh prints its URL, from which
\* the number is parsed back; threw is the thrown Error
createIssue(iss, fails) ==
    IF fails
    THEN [threw |-> TRUE, issues |-> iss, url |-> <<>>, number |-> 0]
    ELSE LET url == IssueUrl(Len(iss) + 1)
         IN [threw |-> FALSE, issues |-> Append(iss, "OPEN"), url |-> url,
             number |-> parseIntOr0(Tail(url))]

\* what may go wrong for one task: nothing, its first call, or its second call
Faults == {"none", "first", "second"}

(***************************************************************************)
(* push                                                                    *)
(***************************************************************************)
\* Reconcile without the reopen branch
ReconcileNeverReopens(isTaskDone, isIssueClosed) ==
    IF isTaskDone /\ ~isIssueClosed THEN "close"
    ELSE "synced"

\* Reconcile closing the issue of every done task, open or not
ReconcileBlindClose(isTaskDone, isIssueClosed) ==
    IF isTaskDone THEN "close"
    ELSE IF ~isTaskDone /\ isIssueClosed THEN "reopen"
    ELSE "synced"

\* Reconcile reopening the issue of every task that is not done, closed or not
ReconcileBlindReopen(isTaskDone, isIssueClosed) ==
    IF isTaskDone /\ ~isIssueClosed THEN "close"
    ELSE IF ~isTaskDone THEN "reopen"
    ELSE "synced"

\* the if / else-if / else of syncToGitHub on a fetched issue state
Reconcile(isTaskDone, isIssueClosed) ==
    IF isTaskDone /\ ~isIssueClosed THEN "close"
    ELSE IF ~isTaskDone /\ isIssueClosed THEN "reopen"
    ELSE "synced"

\* the body of the for loop of syncToGitHub for data.tasks[i]
PushTask(st, i, fault) ==
    LET t == st.tasks[i]
        r == st.res
    IN IF Truthy(t.githubIssue)
       THEN LET n == t.githubIssue[1]
                issueStatus == getIssueStatus(st.issues, n, fault = "first")
                viewed == Append(r.calls, Call("view", t.id, n, issueStatus # None,
                                               IF issueStatus = None THEN "NONE" ELSE issueStatus[1]))
            IN IF issueStatus = None
               THEN [st EXCEPT !.res.calls = viewed]
               ELSE LET isIssueClosed == issueStatus[1] = "CLOSED"
                        isTaskDone == t.status = "done"
                        action == Reconcile(isTaskDone, isIssueClosed)
                    IN IF action = "close"
                       THEN [st EXCEPT
                               !.issues = closeIssue(@, n, fault = "second"),
                               !.res.calls = Append(viewed, Call("close", t.id, n, fault # "second", "NONE")),
                               !.res.updated = Append(@, [id |-> t.id, action |-> "closed"])]
                       ELSE IF action = "reopen"
                       THEN [st EXCEPT
                               !.issues = reopenIssue(@, n, fault = "second"),
                               !.res.calls = Append(viewed, Call("reopen", t.id, n, fault # "second", "NONE")),
                               !.res.updated = Append(@, [id |-> t.id, action |-> "reopened"])]
                       ELSE [st EXCEPT !.res.calls = viewed]
       ELSE LET issue == createIssue(st.issues, fault = "first")
                tried == Append(r.calls, Call("create", t.id, issue.number, ~issue.threw, "NONE"))
            IN IF issue.threw
               THEN [st EXCEPT !.res.calls = tried,
                               !.res.errors = Append(@, [id |-> t.id, error |-> "create"])]
               ELSE LET made == [st EXCEPT
                                   !.tasks[i] = [@ EXCEPT !.githubIssue = Some(issue.number),
                                                          !.githubUrl = Some(issue.url)],
                                   !.issues = issue.issues,
                                   !.res.calls = tried,
                                   !.res.created = Append(@, [id |-> t.id, issue |-> issue.number,
                                                              url |-> issue.url])]
                    IN IF t.status = "done"
                       THEN [made EXCEPT
                               !.issues = closeIssue(@, issue.number, fault = "second"),
                               !.res.calls = Append(@, Call("close", t.id, issue.number,
                                                            fault # "second", "NONE"))]
                       ELSE made

\* tasksToSync, as indices into data.tasks, in list order
TasksToSync(data, sprintOnly) ==
    SelectSeq([i \in 1..Len(data.tasks) |-> i],
              LAMBDA i : ~sprintOnly \/ data.tasks[i].sprint = data.currentSprint)

RECURSIVE PushLoop(_, _, _)
PushLoop(st, todo, fault) ==
    IF todo = <<>> THEN st
    ELSE PushLoop(PushTask(st, Head(todo), fault[Head(todo)]), Tail(todo), fault)

\* syncToGitHub(data, config, options) once both preconditions hold
syncToGitHub(data, iss, sprintOnly, fault) ==
    PushLoop([tasks |-> data.tasks, issues |-> iss, res |-> NoResults],
             TasksToSync(data, sprintOnly), fault)

\* the push case of the dispatcher
cmdPush(data, iss, e, sprintOnly, fault, ts) ==
    IF ~e.gh \/ ~e.remote
    THEN [data |-> data, issues |-> iss, saved |-> FALSE, ok |-> FALSE, exit |-> 1,
          res |-> NoResults]
    ELSE LET st == syncToGitHub(data, iss, sprintOnly, fault)
         IN [data |-> saveData([data EXCEPT !.tasks = st.tasks], ts), issues |-> st.issues,
             saved |-> TRUE, ok |-> TRUE, exit |-> 0, res |-> st.res]

\* --all is a different run only when it selects other tasks; a call can
\* fail only for a task the loop visits
Push ==
    /\ budget > 0
    /\ \E sprintOnly \in {so \in BOOLEAN : so \/ TasksToSync(file, TRUE) # TasksToSync(file, FALSE)} :
       \E fault \in [SeqToSet(TasksToSync(file, sprintOnly)) -> Faults] :
         LET r == cmdPush(file, issues, env, sprintOnly, fault, today)
         IN /\ Finish("push", r, r.exit, r.res)
            /\ issues' = r.issues
    /\ UNCHANGED <<config, env, today, shown, running>>

(***************************************************************************)
(* pull                                                                    *)
(***************************************************************************)
\* PullTask reopening a done task whose issue is open
PullTaskReopens(st, i, fault, ts) ==
    LET t == st.tasks[i]
    IN IF ~Truthy(t.githubIssue)
       THEN st
       ELSE LET n == t.githubIssue[1]
                issueStatus == getIssueStatus(st.issues, n, fault = "first")
                viewed == [st EXCEPT !.res.calls =
                              Append(@, Call("view", t.id, n, issueStatus # None,
                                             IF issueStatus = None THEN "NONE" ELSE issueStatus[1]))]
            IN IF issueStatus = None
               THEN viewed
               ELSE LET isIssueClosed == issueStatus[1] = "CLOSED"
                        isTaskDone == t.status = "done"
                    IN IF isIssueClosed /\ ~isTaskDone
                       THEN [viewed EXCEPT
                               !.tasks[i] = [@ EXCEPT !.status = "done", !.completedAt = Some(ts)],
                               !.res.updated = Append(@, [id |-> t.id, action |-> "marked done"])]
                       ELSE IF ~isIssueClosed /\ isTaskDone
                       THEN [viewed EXCEPT !.tasks[i] = [@ EXCEPT !.status = "in_progress"]]
                       ELSE viewed

\* the body of the for loop of pullFromGitHub for data.tasks[i]
PullTask(st, i, fault, ts) ==
    LET t == st.tasks[i]
    IN IF ~Truthy(t.githubIssue)
       THEN st
       ELSE LET n == t.githubIssue[1]
                issueStatus == getIssueStatus(st.issues, n, fault = "first")
                viewed == [st EXCEPT !.res.calls =
                              Append(@, Call("view", t.id, n, issueStatus # None,
                                             IF issueStatus = None THEN "NONE" ELSE issueStatus[1]))]
            IN IF issueStatus = None
               THEN viewed
               ELSE LET isIssueClosed == issueStatus[1] = "CLOSED"
                        isTaskDone == t.status = "done"
                    IN IF isIssueClosed /\ ~isTaskDone
                       THEN [viewed EXCEPT
                               !.tasks[i] = [@ EXCEPT !.status = "done", !.completedAt = Some(ts)],
                               !.res.updated = Append(@, [id |-> t.id, action |-> "marked done"])]
                       ELSE viewed

RECURSIVE PullLoop(_, _, _, _)
PullLoop(st, i, fault, ts) ==
    IF i > Len(st.tasks) THEN st
    ELSE PullLoop(PullTask(st, i, fault[i], ts), i + 1, fault, ts)

\* pullFromGitHub(data, config) once both preconditions hold
pullFromGitHub(data, iss, fault, ts) ==
    PullLoop([tasks |-> data.tasks, issues |-> iss, res |-> NoResults], 1, fault, ts)

\* the pull case of the dispatcher
cmdPull(data, iss, e, fault, ts) ==
    IF ~e.gh \/ ~e.remote
    THEN [data |-> data, saved |-> FALSE, ok |-> FALSE, exit |-> 1, res |-> NoResults]
    ELSE LET st == pullFromGitHub(data, iss, fault, ts)
         IN [data |-> saveData([data EXCEPT !.tasks = st.tasks], ts),
             saved |-> TRUE, ok |-> TRUE, exit |-> 0, res |-> st.res]

Pull ==
    /\ budget > 0
    /\ \E fault \in [1..Len(file.tasks) -> {"none", "first"}] :
         LET r == cmdPull(file, issues, env, fault, today)
         IN Finish("pull", r, r.exit, r.res)
    /\ UNCHANGED <<config, env, today, issues, shown, running>>

(***************************************************************************)
(* init and the commands that only read the document                       *)
(***************************************************************************)
\* cmdInit(args): writes a new configuration and a new, empty document over
\* whatever the directory holds
cmdInit(ts) == [config |-> DefaultConfig, data |-> InitialData(ts)]

\* the init case of the dispatcher, run in the project directory
Reinit ==
    /\ budget > 0
    /\ LET r == cmdInit(today)
       IN /\ config' = r.config
          /\ file' = r.data
          /\ last' = Outcome("init", TRUE, TRUE, 0, r.data, NoResults)
    /\ budget' = budget - 1
    /\ UNCHANGED <<env, today, issues, shown, running>>

\* data.tasks.filter(t => t.sprint === data.currentSprint)
SprintTasks(data) == SelectSeq(data.tasks, LAMBDA t : t.sprint = data.currentSprint)

RECURSIVE SumPoints(_)
\* tasks.reduce((sum, t) => sum + (t.points || 0), 0)
SumPoints(ts) == IF ts = <<>> THEN 0 ELSE Head(ts).points + SumPoints(Tail(ts))

\* Math.round(num / den * 100) for den > 0: the nearest integer, halves
\* upwards.  The quotient is exact here; the doubles of the code agree with it
\* for the point totals of this model (they differ first near 29/200)
RoundPercent(num, den) == (200 * num + den) \div (2 * den)

\* the summary of cmdBoard: the progress percentage it prints
cmdBoard(data) ==
    LET sprintTasks == SprintTasks(data)
        donePoints == SumPoints(SelectSeq(sprintTasks, LAMBDA t : t.status = "done"))
        totalPoints == SumPoints(sprintTasks)
    IN IF totalPoints > 0 THEN RoundPercent(donePoints, totalPoints) ELSE 0

\* a command that loads the document, prints and exits without saving
View(cmd, ok, exit, progress) ==
    /\ last' = Outcome(cmd, ok, FALSE, exit, file, NoResults)
    /\ shown' = progress
    /\ budget' = budget - 1
    /\ UNCHANGED <<config, env, file, today, issues, running>>

Board ==
    /\ budget > 0
    /\ View("board", TRUE, 0, cmdBoard(file))

Status ==
    /\ budget > 0
    /\ View("status", TRUE, 0, shown)

List ==
    /\ budget > 0
    /\ View("list", TRUE, 0, shown)

\* cmdShow(data, args[1]): without an argument taskId.toLowerCase() throws
\* and the process dies with exit code 1
cmdShow(data, arg) ==
    IF arg = None THEN [ok |-> FALSE, exit |-> 1]
    ELSE IF FindTask(data.tasks, arg[1]) = 0 THEN [ok |-> FALSE, exit |-> 0]
    ELSE [ok |-> TRUE, exit |-> 0]

Show ==
    /\ budget > 0
    /\ \E arg \in {None} \cup {Some(taskId) : taskId \in IdInputs} :
         LET r == cmdShow(file, arg) IN View("show", r.ok, r.exit, shown)

Debt ==
    /\ budget > 0
    /\ View("debt", TRUE, 0, shown)

\* cmdGenerate writes the markdown board file, never the document
Generate ==
    /\ budget > 0
    /\ View("generate", TRUE, 0, shown)

Help ==
    /\ budget > 0
    /\ View("help", TRUE, 0, shown)

\* the default case of the dispatcher
Unknown ==
    /\ budget > 0
    /\ View("unknown", FALSE, 1, shown)

(***************************************************************************)
(* Environment                                                             *)
(***************************************************************************)
Tick ==
    /\ today < MaxDay
    /\ today' = today + 1
    /\ UNCHANGED <<config, env, file, issues, budget, last, shown, running>>

\* the user edits taskPrefix in .sprint-tracker.json between two invocations
EditConfig ==
    /\ \E p \in PrefixChoices \ {config.taskPrefix} : config' = [config EXCEPT !.taskPrefix = p]
    /\ UNCHANGED <<env, file, today, issues, budget, last, shown, running>>

\* someone closes or reopens an issue on the tracker itself
ExtToggle ==
    /\ \E n \in 1..Len(issues) :
         issues' = [issues EXCEPT ![n] = IF @ = "OPEN" THEN "CLOSED" ELSE "OPEN"]
    /\ UNCHANGED <<config, env, file, today, budget, last, shown, running>>

(***************************************************************************)
(* Specification                                                           *)
(***************************************************************************)
Init ==
    /\ config \in [taskPrefix : PrefixChoices, columns : ColumnChoices]
    /\ env = WorkingEnv
    /\ today = 0
    /\ file = InitialData(0)
    /\ issues = <<>>
    /\ budget = MaxOps
    /\ last = Outcome("init", TRUE, TRUE, 0, InitialData(0), NoResults)
    /\ shown = 0
    /\ running = <<>>

Next ==
    \/ Add
    \/ Move
    \/ Edit
    \/ Link
    \/ Push
    \/ Pull
    \/ ExtToggle
    \/ Tick
    \/ EditConfig

Spec == Init /\ [][Next]_vars

\* the same sessions with taskPrefix left as configured at the start
NextFixedPrefix ==
    \/ Add
    \/ Move
    \/ Edit
    \/ Link
    \/ Push
    \/ Pull
    \/ ExtToggle
    \/ Tick

SpecFixedPrefix == Init /\ [][NextFixedPrefix]_vars

\* sessions over every command of the dispatcher
NextCommands ==
    \/ Reinit
    \/ Board
    \/ Status
    \/ List
    \/ Show
    \/ Debt
    \/ Generate
    \/ Help
    \/ Unknown
    \/ Add
    \/ Move
    \/ Edit
    \/ Link
    \/ Push
    \/ Pull
    \/ ExtToggle
    \/ Tick
    \/ EditConfig

SpecCommands == Init /\ [][NextCommands]_vars

\* a machine without the gh client, inside or outside a GitHub checkout
NoClientEnvs == {[gh |-> FALSE, remote |-> r] : r \in BOOLEAN}

InitNoClient ==
    /\ config \in [taskPrefix : PrefixChoices, columns : ColumnChoices]
    /\ env \in NoClientEnvs
    /\ today = 0
    /\ file = InitialData(0)
    /\ issues = <<>>
    /\ budget = MaxOps
    /\ last = Outcome("init", TRUE, TRUE, 0, InitialData(0), NoResults)
    /\ shown = 0
    /\ running = <<>>

\* the same sessions on such a machine; the tracker is never reached
NextNoClient ==
    \/ Add
    \/ Move
    \/ Edit
    \/ Link
    \/ Push
    \/ Pull
    \/ Tick
    \/ EditConfig

SpecNoClient == InitNoClient /\ [][NextNoClient]_vars

(***************************************************************************)
(* Push and pull on their own, from the documents that add, move, edit     *)
(* sprint and link produce on day 0 and the trackers that can face them.   *)
(***************************************************************************)
\* a task after add, then move, edit sprint and link as the shape says
Shaped(t, sh) ==
    [t EXCEPT !.status = sh.status,
              !.completedAt = IF sh.stamped THEN Some(0) ELSE None,
              !.sprint = sh.sprint,
              !.githubIssue = sh.issue,
              !.githubUrl = IF sh.issue = None THEN None ELSE Some(IssueUrl(sh.issue[1]))]

Shapes ==
    {sh \in [status : {"review", "done"}, stamped : BOOLEAN, sprint : {<<"1">>, <<"2">>},
             issue : {None} \cup {Some(n) : n \in 1..MaxSyncIssues}] :
        sh.status = "done" => sh.stamped}

RECURSIVE TaskLists(_, _)
\* the task lists of n tasks, ids as cmdAdd numbers them
TaskLists(n, shapes) ==
    IF n = 0 THEN {<<>>}
    ELSE {Append(ts, Shaped(NewTask([InitialData(0) EXCEPT !.tasks = ts], DefaultConfig, <<"a">>, 0), sh)) :
             ts \in TaskLists(n - 1, shapes), sh \in shapes}

RECURSIVE Trackers(_)
Trackers(n) ==
    IF n = 0 THEN {<<>>}
    ELSE {<<>>} \cup {Append(w, st) : w \in Trackers(n - 1), st \in {"OPEN", "CLOSED"}}

InitSync(shapes, ops) ==
    /\ config = DefaultConfig
    /\ env = WorkingEnv
    /\ today = MaxDay
    /\ \E n \in 0..MaxSyncTasks : \E ts \in TaskLists(n, shapes) :
         file = [InitialData(0) EXCEPT !.tasks = ts]
    /\ issues \in Trackers(MaxSyncIssues)
    /\ budget = ops
    /\ last = Outcome("move", FALSE, FALSE, 0, file, NoResults)
    /\ shown = 0
    /\ running = <<>>

\* push ignores completedAt: a task stamped exactly when done; every task in
\* the current sprint (Spec pushes after edits of sprint)
InitPush == InitSync({sh \in Shapes : sh.stamped = (sh.status = "done") /\ sh.sprint = CurrentSprint}, MaxPushes)

NextPush ==
    \/ Push

SpecPush == InitPush /\ [][NextPush]_vars

\* pull ignores sprint: every task in the current sprint
InitPull == InitSync({sh \in Shapes : sh.sprint = CurrentSprint}, 1)

NextPull ==
    \/ Pull

SpecPull == InitPull /\ [][NextPull]_vars

(***************************************************************************)
(* The board over documents whose points were edited                       *)
(***************************************************************************)
\* tasks as add and move leave them, in the current sprint or in another
BoardShapes == {sh \in Shapes : sh.stamped = (sh.status = "done") /\ sh.issue = None}

InitBoard ==
    /\ config = DefaultConfig
    /\ env = WorkingEnv
    /\ today = MaxDay
    /\ \E n \in 0..MaxBoardTasks : \E ts \in TaskLists(n, BoardShapes) :
         file = [InitialData(0) EXCEPT !.tasks = ts]
    /\ issues = <<>>
    /\ budget = MaxBoardOps
    /\ last = Outcome("move", FALSE, FALSE, 0, file, NoResults)
    /\ shown = 0
    /\ running = <<>>

NextBoard ==
    \/ Add
    \/ EditPoints
    \/ Board

SpecBoard == InitBoard /\ [][NextBoard]_vars

(***************************************************************************)
(* Concurrent invocations.  A process loads the configuration and the      *)
(* document when it starts (cli.js 539-540) and writes the document when   *)
(* its handler saves; the processes of two invocations interleave between  *)
(* the two.  Each command action above is Begin and Complete in one step.  *)
(***************************************************************************)
\* one started invocation of a mutating command: its arguments and what it loaded
Invocation(cmd, title, taskId, newStatus, field, value, cfg, data) ==
    [cmd |-> cmd, title |-> title, taskId |-> taskId, newStatus |-> newStatus,
     field |-> field, value |-> value, cfg |-> cfg, data |-> data]

\* the argument lists a user may type for a document, all of them valid for it
RaceInputs(cfg, data) ==
    LET ids == {toLowerCase(data.tasks[i].id) : i \in 1..Len(data.tasks)}
    IN {Invocation("add", title, <<>>, "", "", <<>>, cfg, data) : title \in {<<"a">>, <<"b">>}}
       \cup {Invocation("move", <<>>, taskId, newStatus, "", <<>>, cfg, data) :
                taskId \in ids, newStatus \in {"review", "done"}}
       \cup {Invocation("edit", <<>>, taskId, "", "sprint", <<"2">>, cfg, data) : taskId \in ids}

\* loadConfig() and loadData(config) at the start of main
Begin ==
    /\ Len(running) < MaxRunning
    /\ Len(running) < budget
    /\ \E inv \in RaceInputs(config, file) : running' = Append(running, inv)
    /\ UNCHANGED <<config, env, file, today, issues, budget, last, shown>>

\* a handler that would read the document again when it is about to save
LoadedAtSave(inv, current) == current

\* the document the handler of inv works on: the one main loaded
Loaded(inv, current) == inv.data

\* the handler of a started invocation, run on what the process holds in memory
RunHandler(inv, current, ts) ==
    LET data == Loaded(inv, current)
    IN CASE inv.cmd = "add" -> cmdAdd(data, inv.cfg, inv.title, ts)
         [] inv.cmd = "move" -> cmdMove(data, inv.cfg, inv.taskId, inv.newStatus, ts)
         [] inv.cmd = "edit" -> cmdEdit(data, inv.cfg, inv.taskId, inv.field, inv.value, ts)

Without(s, k) == SubSeq(s, 1, k - 1) \o SubSeq(s, k + 1, Len(s))

\* the handler runs, saves and the process exits
Complete ==
    /\ \E k \in 1..Len(running) :
         /\ Finish(running[k].cmd, RunHandler(running[k], file, today), 0, NoResults)
         /\ running' = Without(running, k)
    /\ UNCHANGED <<config, env, today, issues, shown>>

InitRace ==
    /\ config = DefaultConfig
    /\ env = WorkingEnv
    /\ today = MaxDay
    /\ \E n \in 0..MaxRaceTasks : \E ts \in TaskLists(n, BoardShapes) :
         file = [InitialData(0) EXCEPT !.tasks = ts]
    /\ issues = <<>>
    /\ budget = MaxRaceOps
    /\ last = Outcome("move", FALSE, FALSE, 0, file, NoResults)
    /\ shown = 0
    /\ running = <<>>

NextRace ==
    \/ Begin
    \/ Complete

SpecRace == InitRace /\ [][NextRace]_vars

(***************************************************************************)
(* Properties                                                              *)
(***************************************************************************)
Tasks == file.tasks

\* the step just taken ran command cmd
Ran(cmd) == budget' # budget /\ last'.cmd = cmd

\* how many entries of a result list carry id
CountOf(entries, id) == Cardinality({k \in 1..Len(entries) : entries[k].id = id})

\* how many entries of updated carry id with the action
CountAction(entries, id, action) ==
    Cardinality({k \in 1..Len(entries) : entries[k].id = id /\ entries[k].action = action})

\* the calls of kind op made for task id
CallsFor(calls, id, op) == {k \in 1..Len(calls) : calls[k].id = id /\ calls[k].op = op}

C2_IdsUnique ==
    \A i, j \in 1..Len(Tasks) : i # j => Tasks[i].id # Tasks[j].id

\* three tasks added under two prefixes, one of which starts the other:
\* T-5-001 made the next id under T be T-006
C2_Witness ==
    /\ Len(Tasks) = 3
    /\ \E i, j \in 1..Len(Tasks) :
         /\ Tasks[i].id = <<"T", "-", "5", "-", "0", "0", "1">>
         /\ Tasks[j].id = <<"T", "-", "0", "0", "6">>

\* <PREFIX>-<k zero-padded to 3 digits>
NumberedId(prefix, k) ==
    prefix \o <<"-">> \o
    (IF k < 10 THEN <<"0", "0">> ELSE IF k < 100 THEN <<"0">> ELSE <<>>) \o NumToString(k)

\* C3: with the prefix fixed, the k-th task of the document has the id
\* <PREFIX>-<k zero-padded to 3 digits>, whatever moves and edits came between.
C3_IdsNumberedInOrder ==
    \A k \in 1..Len(Tasks) : Tasks[k].id = NumberedId(Prefix(config), k)

\* an add that followed an edit or a move of an earlier task
C3_Witness ==
    /\ last.cmd = "add" /\ last.ok
    /\ Len(Tasks) >= 2
    /\ \E i \in 1..Len(Tasks) : Tasks[i].sprint # CurrentSprint \/ Tasks[i].status # "backlog"

InvalidStatus(newStatus) == \A k \in 1..Len(Columns(config)) : Columns(config)[k] # newStatus

NoSuchTask(taskId) == \A i \in 1..Len(Tasks) : toLowerCase(Tasks[i].id) # toLowerCase(taskId)

FieldInputs == {"title", "points", "sprint", "id", "status", "completedAt", "githubIssue"}

Untouched(r) == r.data = file /\ ~r.saved

\* C4: add with an empty title, move with a status outside the columns or an
\* unknown id, edit with an unknown id or a field outside the allow-list (in any
\* combination) return with the document as loaded and without saving; a
\* command that did not save left memory equal to the persisted document.
C4_ValidationAtomic ==
    /\ Untouched(cmdAdd(file, config, <<>>, today))
    /\ \A taskId \in IdInputs, newStatus \in StatusInputs :
         (InvalidStatus(newStatus) \/ NoSuchTask(taskId))
            => Untouched(cmdMove(file, config, taskId, newStatus, today))
    /\ \A taskId \in IdInputs, field \in FieldInputs :
         (field \notin {"title", "type", "priority", "points", "owner", "branch", "sprint", "notes"}
             \/ NoSuchTask(taskId))
            => Untouched(cmdEdit(file, config, taskId, field, <<"5">>, today))
    /\ (last.cmd \in {"add", "move", "edit"} /\ ~last.saved) => last.data = file

\* a rejected edit ran against a document that holds tasks
C4_Witness ==
    /\ last.cmd = "edit" /\ ~last.ok
    /\ Len(Tasks) > 0

\* the view of task i's issue succeeded in the run and reported state
Fetched(res, id, state) ==
    \E k \in 1..Len(res.calls) :
        /\ res.calls[k].op = "view" /\ res.calls[k].id = id
        /\ res.calls[k].ok /\ res.calls[k].state = state

\* C5: a pull that finds the issue of a task that is not done closed marks the
\* task done, records one 'marked done' entry, and stamps completedAt with
\* today only if it was unset.
C5_PullStampsIfUnset ==
    [][Ran("pull") =>
         \A i \in 1..Len(file.tasks) :
            LET t == file.tasks[i]
            IN (Fetched(last'.res, t.id, "CLOSED") /\ t.status # "done") =>
                 /\ file'.tasks[i].status = "done"
                 /\ CountAction(last'.res.updated, t.id, "marked done") = 1
                 /\ file'.tasks[i].completedAt =
                       (IF t.completedAt = None THEN Some(today) ELSE t.completedAt)]_vars

\* C6: a pull leaves a done task whose issue is open as it was and records
\* nothing for it, and the only status a pull ever writes is done.
C6_PullNeverReopens ==
    [][Ran("pull") =>
         /\ Len(file'.tasks) = Len(file.tasks)
         /\ \A i \in 1..Len(file.tasks) :
              LET t == file.tasks[i]
              IN /\ (t.status = "done" /\ Truthy(t.githubIssue)
                       /\ Exists(issues, t.githubIssue[1]) /\ issues[t.githubIssue[1]] = "OPEN")
                      => /\ file'.tasks[i] = t
                         /\ CountOf(last'.res.updated, t.id) = 0
                 /\ file'.tasks[i].status # t.status => file'.tasks[i].status = "done"]_vars

\* a pull fetched the open issue of a done task
C6_Witness ==
    /\ last.cmd = "pull" /\ last.ok
    /\ \E i \in 1..Len(Tasks) :
         /\ Tasks[i].status = "done"
         /\ Fetched(last.res, Tasks[i].id, "OPEN")

StatusOf(data, id) == data.tasks[CHOOSE i \in 1..Len(data.tasks) : data.tasks[i].id = id].status

\* C7: for every task whose issue state a push fetched, close is requested and
\* one 'closed' entry recorded exactly when the task is done and the issue
\* open, reopen and one 'reopened' entry exactly when the task is not done and
\* the issue closed, and nothing otherwise; no issue is created for a task
\* that was linked.
C7_PushReconciles ==
    last.cmd = "push" =>
      \A k \in 1..Len(last.res.calls) :
         LET c == last.res.calls[k]
             done == StatusOf(last.data, c.id) = "done"
             mustClose == done /\ c.state = "OPEN"
             mustReopen == ~done /\ c.state = "CLOSED"
         IN c.op = "view" =>
              /\ CallsFor(last.res.calls, c.id, "create") = {}
              /\ CountOf(last.res.created, c.id) = 0
              /\ c.ok =>
                   /\ Cardinality(CallsFor(last.res.calls, c.id, "close")) = (IF mustClose THEN 1 ELSE 0)
                   /\ CountAction(last.res.updated, c.id, "closed") = (IF mustClose THEN 1 ELSE 0)
                   /\ Cardinality(CallsFor(last.res.calls, c.id, "reopen")) = (IF mustReopen THEN 1 ELSE 0)
                   /\ CountAction(last.res.updated, c.id, "reopened") = (IF mustReopen THEN 1 ELSE 0)
                   /\ CountOf(last.res.updated, c.id) = (IF mustClose \/ mustReopen THEN 1 ELSE 0)

\* one push closed the issue of a done task, reopened the issue of another and
\* fetched a consistent one
C7_Witness ==
    /\ last.cmd = "push"
    /\ \E k \in 1..Len(last.res.updated) : last.res.updated[k].action = "closed"
    /\ \E k \in 1..Len(last.res.updated) : last.res.updated[k].action = "reopened"

\* C8: every task of a push for which a subprocess call failed has exactly one
\* entry in errors and none in created or updated.
C8_PushFailureIsOneError ==
    last.cmd = "push" =>
      \A k \in 1..Len(last.res.calls) :
         LET c == last.res.calls[k]
         IN ~c.ok =>
              /\ CountOf(last.res.errors, c.id) = 1
              /\ CountOf(last.res.created, c.id) = 0
              /\ CountOf(last.res.updated, c.id) = 0

\* C9: every linked task of a pull whose issue-state fetch failed is left
\* unchanged and has exactly one entry in errors; an unlinked task has no
\* entry in either list.
C9_PullFailureIsOneError ==
    [][Ran("pull") =>
         \A i \in 1..Len(file.tasks) :
            LET t == file.tasks[i]
                failed == \E k \in CallsFor(last'.res.calls, t.id, "view") : ~last'.res.calls[k].ok
            IN /\ failed => /\ file'.tasks[i] = t
                            /\ CountOf(last'.res.errors, t.id) = 1
               /\ ~Truthy(t.githubIssue) =>
                     /\ CountOf(last'.res.errors, t.id) = 0
                     /\ CountOf(last'.res.updated, t.id) = 0]_vars

\* linked to an issue the tracker has, closed exactly when the task is done
LinkedConsistent(t, iss) ==
    /\ Truthy(t.githubIssue)
    /\ Exists(iss, t.githubIssue[1])
    /\ (iss[t.githubIssue[1]] = "CLOSED") <=> (t.status = "done")

\* no other task of the list is linked to the issue of task i
IssueNotShared(tasks, i) ==
    \A j \in 1..Len(tasks) : j # i => tasks[j].githubIssue # tasks[i].githubIssue

\* the run recorded nothing and requested no create, close or reopen for id
Quiet(res, id) ==
    /\ CountOf(res.created, id) = 0
    /\ CountOf(res.updated, id) = 0
    /\ \A k \in 1..Len(res.calls) : res.calls[k].id = id => res.calls[k].op = "view"

\* C10 as stated: the second of two pushes in a row is quiet for every task
\* that was linked and consistent when it started.
C10_SecondPushQuiet ==
    [][(last.cmd = "push" /\ last.ok /\ Ran("push")) =>
         \A i \in 1..Len(file.tasks) :
            LinkedConsistent(file.tasks[i], issues) => Quiet(last'.res, file.tasks[i].id)]_vars

\* C10 amended: the second of two pushes in a row is quiet for every task that
\* was linked and consistent when it started and shares its issue with no
\* other task.
C10_SecondPushQuietUnshared ==
    [][(last.cmd = "push" /\ last.ok /\ Ran("push")) =>
         \A i \in 1..Len(file.tasks) :
            (LinkedConsistent(file.tasks[i], issues) /\ IssueNotShared(file.tasks, i))
               => Quiet(last'.res, file.tasks[i].id)]_vars

\* two pushes ran; the second fetched the issue of a task that shares it with
\* no other and recorded nothing
C10_Witness ==
    /\ last.cmd = "push" /\ last.ok
    /\ budget = MaxPushes - 2
    /\ Len(Tasks) = 2
    /\ last.res.created = <<>> /\ last.res.updated = <<>>
    /\ \E i \in 1..Len(Tasks) :
         /\ LinkedConsistent(Tasks[i], issues)
         /\ IssueNotShared(Tasks, i)
         /\ \E k \in 1..Len(last.res.calls) : last.res.calls[k].id = Tasks[i].id /\ last.res.calls[k].ok

\* C11: from a fresh document, under add, move, edit, link, push and pull, a
\* task has completedAt set exactly when its status has been done at some
\* point since it was created: a new task is neither done nor stamped, and
\* every step leaves a task stamped exactly when it was stamped before or is
\* done now; so completedAt is never cleared.
C11_CompletedAtTracksHistory ==
    [][/\ Len(file'.tasks) >= Len(file.tasks)
       /\ \A i \in 1..Len(file'.tasks) :
            IF i <= Len(file.tasks)
            THEN /\ file'.tasks[i].id = file.tasks[i].id
                 /\ (file'.tasks[i].completedAt # None)
                      <=> (file.tasks[i].completedAt # None \/ file'.tasks[i].status = "done")
            ELSE /\ file'.tasks[i].completedAt = None
                 /\ file'.tasks[i].status # "done"]_vars

\* a task moved into done and out again: stamped, and no longer done
C11_Witness ==
    /\ last.cmd = "move" /\ last.ok
    /\ \E i \in 1..Len(Tasks) : Tasks[i].status # "done" /\ Tasks[i].completedAt # None

\* the ids of a task list, in order
Ids(tasks) == [i \in 1..Len(tasks) |-> tasks[i].id]

IsPrefix(s, t) == Len(s) <= Len(t) /\ SubSeq(t, 1, Len(s)) = s

\* C12: no command deletes tasks: after every command (init included) the
\* persisted ids have the ids persisted before it as a prefix, only a
\* successful add extends them, by one task, and technicalDebt keeps its entries.
C12_NoCommandDeletes ==
    [][/\ IsPrefix(Ids(file.tasks), Ids(file'.tasks))
       /\ Len(file'.tasks) # Len(file.tasks)
            => Ran("add") /\ last'.ok /\ Len(file'.tasks) = Len(file.tasks) + 1
       /\ IsPrefix(file.technicalDebt, file'.technicalDebt)]_vars

\* C13: for any configured column list, from a fresh document and under add,
\* move, edit, push and pull, every task's status is one of the configured columns.
C13_StatusInColumns ==
    \A i \in 1..Len(Tasks) : Tasks[i].status \in SeqToSet(Columns(config))

\* C14: points are a non-negative integer: a new task has points 0, and after
\* any edits of points with arbitrary input every task's points is an integer
\* >= 0, non-numeric input being stored as 0.
C14_PointsNonNegative ==
    /\ \A i \in 1..Len(Tasks) : Tasks[i].points \in Nat
    /\ (last.cmd = "add" /\ last.ok) => Tasks[Len(Tasks)].points = 0

\* C15: the board's progress is round(donePoints / totalPoints * 100) over the
\* tasks of the current sprint, halves upwards, and 0 when totalPoints is 0;
\* tasks of other sprints do not contribute.
C15_BoardProgress ==
    last.cmd = "board" =>
       LET S == {i \in 1..Len(Tasks) : Tasks[i].sprint = file.currentSprint}
           D == {i \in S : Tasks[i].status = "done"}
           Sum[X \in SUBSET S] ==
               IF X = {} THEN 0
               ELSE LET i == CHOOSE j \in X : TRUE IN Tasks[i].points + Sum[X \ {i}]
           total == Sum[S]
           done == Sum[D]
       IN IF total = 0 THEN shown = 0
          ELSE \* shown - 1/2 <= 100 * done / total < shown + 1/2
               IF total > 0
               THEN (2 * shown - 1) * total <= 200 * done /\ 200 * done < (2 * shown + 1) * total
               ELSE (2 * shown - 1) * total >= 200 * done /\ 200 * done > (2 * shown + 1) * total

\* the positions at which two task lists differ
Changed(old, new) ==
    {i \in 1..Max2(Len(old), Len(new)) : i > Len(old) \/ i > Len(new) \/ old[i] # new[i]}

\* C16: when invocations of mutating commands interleave, every save leaves
\* the persisted document equal to the in-memory document of the invocation
\* that saved, which is what that invocation loaded plus its own mutation
\* alone (so what another invocation saved in between is absent from it), and
\* the invocation reports no error.
C16_LastWriterWins ==
    [][\A k \in 1..Len(running) :
          running' = Without(running, k) =>
             /\ file' = last'.data
             /\ Cardinality(Changed(running[k].data.tasks, file'.tasks)) <= 1
             /\ last'.ok /\ last'.saved /\ last'.exit = 0]_vars

\* a lost update: two adds loaded the empty document, both saved without an
\* error, and the document holds only the task of the one that saved last
C16_Witness ==
    /\ running = <<>>
    /\ budget = MaxRaceOps - 2
    /\ last.cmd = "add" /\ last.ok /\ last.exit = 0
    /\ Len(Tasks) = 1
    /\ Tasks[1].title = <<"b">>

\* C17: push, pull and link without the gh client: the process exits
\* non-zero, no task is mutated and nothing is saved.
C17_SyncNeedsClient ==
    [][((Ran("push") \/ Ran("pull") \/ Ran("link")) /\ ~env.gh) =>
          /\ last'.exit # 0
          /\ ~last'.saved
          /\ last'.data = file
          /\ file' = file]_vars

\* C18: the process exits non-zero only for an unknown command or for a sync
\* command without the gh client (the document always exists here); every
\* other path exits zero, failed validation or lookup of add, move, edit, show
\* and link and push/pull runs with failed items included.
C18_ExitCodes ==
    last.exit # 0 =>
       \/ last.cmd = "unknown"
       \/ last.cmd \in {"push", "pull", "link"} /\ ~env.gh

\* every call the run made succeeded
AllCallsOk(res) == \A k \in 1..Len(res.calls) : res.calls[k].ok

\* push left status and completedAt of every task as they were
PushKeepsStatus ==
    /\ Len(file'.tasks) = Len(file.tasks)
    /\ \A i \in 1..Len(file.tasks) :
         /\ file'.tasks[i].status = file.tasks[i].status
         /\ file'.tasks[i].completedAt = file.tasks[i].completedAt

\* C19 as stated: when every call of a push succeeded, every task of the
\* current sprint is linked to an existing issue that is closed exactly when
\* the task is done; push changes no status and no completedAt.
C19_PushConverges ==
    [][(Ran("push") /\ last'.ok) =>
          /\ PushKeepsStatus
          /\ AllCallsOk(last'.res) =>
               \A i \in 1..Len(file'.tasks) :
                  file'.tasks[i].sprint = file'.currentSprint
                     => LinkedConsistent(file'.tasks[i], issues')]_vars

\* C19 (amended): when every call of a push succeeded, every task of the
\* current sprint is linked to an existing issue, and that issue is closed
\* exactly when the task is done if no other task is linked to it; push
\* changes no status and no completedAt.
C19_PushConvergesUnshared ==
    [][(Ran("push") /\ last'.ok) =>
          /\ PushKeepsStatus
          /\ AllCallsOk(last'.res) =>
               \A i \in 1..Len(file'.tasks) :
                  file'.tasks[i].sprint = file'.currentSprint =>
                     /\ Truthy(file'.tasks[i].githubIssue)
                     /\ Exists(issues', file'.tasks[i].githubIssue[1])
                     /\ IssueNotShared(file'.tasks, i) => LinkedConsistent(file'.tasks[i], issues')]_vars

\* a push whose calls all succeeded: it created and closed the issue of a done
\* task and reopened the issue of a task that is not done
C19_Witness ==
    /\ last.cmd = "push" /\ last.ok
    /\ AllCallsOk(last.res)
    /\ \E k \in 1..Len(last.res.calls) : last.res.calls[k].op = "create"
    /\ \E k \in 1..Len(last.res.calls) : last.res.calls[k].op = "close"
    /\ \E k \in 1..Len(last.res.updated) : last.res.updated[k].action = "reopened"
    /\ \A i \in 1..Len(Tasks) : IssueNotShared(Tasks, i) /\ LinkedConsistent(Tasks[i], issues)

====
